---- MODULE Spec2Model ----
(***************************************************************************)
(* The node registry cache of NodeValidator (build/node-validator.js):     *)
(* a TTL-governed mirror of the remote node catalog with a single shared   *)
(* in-flight fetch and a fallback dataset.                                 *)
(*                                                                         *)
(* JavaScript runs a handler to its next await without interleaving, so    *)
(* every action below is one such run: from a call (or from the            *)
(* continuation of an await) to the next await or to the return.           *)
(* Continuations of settled promises wait in the microtask queue (microQ)  *)
(* and run before the event loop delivers the next remote response.        *)
(***************************************************************************)
EXTENDS Integers, Sequences, FiniteSets, TLC

\* ------------------------------------------------------------------ bounds
MaxCallers == 2
MaxFetches == 2
MaxTicks == 2
MaxPayloadLen == 3

\* --------------------------------------------------------------- constants
CACHE_DURATION == 60 * 60 * 1000

\* Date.now() advances in steps of half a freshness window.
TickStep == CACHE_DURATION \div 2
StartTime == CACHE_DURATION
Times == {StartTime + k * TickStep : k \in 0..MaxTicks}

Callers == 1..MaxCallers
FetchIds == 1..MaxFetches
NoPromise == 0

\* Names a remote catalog entry can carry; one is also a fallback name.
RemoteNames == {"n8n-nodes-base.httpRequest", "n8n-nodes-base.webhook"}
\* An entry object without a (non-empty) name, and an entry on which the
\* processing loop throws (null, or a group that is no array).
NoName == "<no name>"
BadEntry == "<null entry>"
Entries == RemoteNames \cup {NoName, BadEntry}
\* A body that parses to something that is no object (null, a number, a string).
NonObject == << "<non-object>" >>

RECURSIVE SeqsUpTo(_, _)
SeqsUpTo(S, n) ==
    IF n = 0 THEN {<<>>}
    ELSE LET shorter == SeqsUpTo(S, n - 1)
         IN  shorter \cup {Append(s, e) : s \in {t \in shorter : Len(t) = n - 1}, e \in S}

Payloads == SeqsUpTo(Entries, MaxPayloadLen) \cup {NonObject}

Range(s) == {s[i] : i \in 1..Len(s)}

\* ---------------------------------------------------------- pure helpers
\* Map.prototype.set on the key sequence of a Map: a new key goes last, an
\* existing key keeps its place.
MapSet(reg, key) == IF key \in Range(reg) THEN reg ELSE Append(reg, key)

fallback_nodes ==
    << "n8n-nodes-base.start", "n8n-nodes-base.manualTrigger",
       "n8n-nodes-base.httpRequest", "n8n-nodes-base.set",
       "n8n-nodes-base.function", "n8n-nodes-base.if",
       "n8n-nodes-base.switch", "n8n-nodes-base.merge" >>

RECURSIVE SetAll(_, _)
SetAll(reg, names) ==
    IF names = <<>> THEN reg ELSE SetAll(MapSet(reg, Head(names)), Tail(names))

add_fallback_nodes(reg) == SetAll(reg, fallback_nodes)

ProcessEntries_rejectsBatch(reg, entries) ==
    IF \E i \in 1..Len(entries) : entries[i] = BadEntry
    THEN [reg |-> reg, threw |-> TRUE]
    ELSE IF \E i \in 1..Len(entries) : entries[i] = NoName
    THEN [reg |-> reg, threw |-> FALSE]
    ELSE [reg |-> SelectSeq(entries, LAMBDA e : TRUE), threw |-> FALSE]

\* The loop over the payload's entries, after node_registry.clear(): each
\* entry with a name is set, an entry without one is skipped, and the loop
\* stops where reading an entry throws.
RECURSIVE ProcessEntries(_, _)
ProcessEntries(reg, entries) ==
    IF entries = <<>> THEN [reg |-> reg, threw |-> FALSE]
    ELSE IF Head(entries) = BadEntry THEN [reg |-> reg, threw |-> TRUE]
    ELSE IF Head(entries) = NoName THEN ProcessEntries(reg, Tail(entries))
    ELSE ProcessEntries(MapSet(reg, Head(entries)), Tail(entries))

ProcessPayload(data) ==
    IF data = NonObject THEN [reg |-> <<>>, threw |-> FALSE]
    ELSE ProcessEntries(<<>>, data)

\* The names of all entries of a payload that carry one: the catalog the
\* payload describes.
RECURSIVE NamedEntries(_)
NamedEntries(data) ==
    IF data = NonObject \/ data = <<>> THEN <<>>
    ELSE IF Head(data) \in RemoteNames
         THEN LET rest == NamedEntries(Tail(data))
              IN  <<Head(data)>> \o SelectSeq(rest, LAMBDA n : n # Head(data))
         ELSE NamedEntries(Tail(data))

CacheValid_ignoresSize(reg, last, t) == t - last < CACHE_DURATION

CacheValid_inverted(reg, last, t) == Len(reg) > 0 /\ t - last > CACHE_DURATION

\* if (this.node_registry.size > 0 && now - this.last_fetch_time < CACHE_DURATION)
CacheValid(reg, last, t) == Len(reg) > 0 /\ t - last < CACHE_DURATION

CatchBlock_leavesTime(reg, last, t) ==
    IF Len(reg) = 0
    THEN [reg |-> add_fallback_nodes(reg), last |-> last, fallback |-> TRUE, rethrows |-> FALSE]
    ELSE [reg |-> reg, last |-> last, fallback |-> FALSE, rethrows |-> FALSE]

CatchBlock_stamps(reg, last, t) ==
    IF Len(reg) = 0
    THEN [reg |-> add_fallback_nodes(reg), last |-> t, fallback |-> TRUE, rethrows |-> FALSE]
    ELSE [reg |-> reg, last |-> t, fallback |-> FALSE, rethrows |-> FALSE]

CatchBlock_rethrows(reg, last, t) ==
    IF Len(reg) = 0
    THEN [reg |-> add_fallback_nodes(reg), last |-> t, fallback |-> TRUE, rethrows |-> FALSE]
    ELSE [reg |-> reg, last |-> last, fallback |-> FALSE, rethrows |-> TRUE]

\* The catch block of fetch_node_registry: the registry and last_fetch_time
\* it leaves, whether it applied the fallback, and whether it throws itself.
CatchBlock(reg, last, t) ==
    IF Len(reg) = 0
    THEN [reg |-> add_fallback_nodes(reg), last |-> t, fallback |-> TRUE, rethrows |-> FALSE]
    ELSE [reg |-> reg, last |-> last, fallback |-> FALSE, rethrows |-> FALSE]

\* ------------------------------------------------------------------ state
VARIABLES
    task,             \* the validate_node_type / validate_workflow_nodes call under study
    matcher,          \* a registry, a queried type and validate_node_type's answer
    budgeter,         \* a tool result and what the response budgeter made of it
    node_registry,    \* keys of the Map, in insertion order
    last_fetch_time,
    is_fetching,
    fetch_promise,    \* NoPromise (null) or the id of a fetch_node_registry call
    now,              \* Date.now()
    fetchCount,       \* calls of fetch_node_registry so far
    phase,            \* per fetch: "unused", "awaitFetch", "awaitJson", "settled"
    promise,          \* per fetch: "pending", "fulfilled", "rejected"
    waiters,          \* per fetch: the callers awaiting its promise, in order
    microQ,           \* pending continuations, in order
    pc,               \* per caller: where it is in ensure_node_registry_is_loaded
    how,              \* per caller: how its current call went: "fresh", "started", "joined"
    awaiting,         \* per caller: the promise it awaits or awaited
    expect,           \* per caller: the registry its awaited fetch left at completion
    result,           \* per caller: how its last completed call ended:
                      \* "none", "returned", "raised"
    attempt           \* the latest fetch_node_registry call: the registry and
                      \* the time at its start, how it ended, and the names
                      \* of the payload it received

vars == << node_registry, last_fetch_time, is_fetching, fetch_promise, now,
           fetchCount, phase, promise, waiters, microQ, pc, how, awaiting,
           expect, result, attempt >>

\* attempt.outcome: "none", "pending", "success", or the failure: "network"
\* (fetch rejects), "http" (response.ok is false), "parse" (response.json()
\* rejects), "process" (the processing loop throws).
Failures == {"network", "http", "parse", "process"}

NoAttempt ==
    [id |-> 0, by |-> 0, pre |-> <<>>, started |-> 0, outcome |-> "none",
     catalog |-> <<>>, fallback |-> FALSE]

\* The NodeValidator as its constructor leaves it, with no call made yet.
Constructed ==
    /\ node_registry = <<>>
    /\ last_fetch_time = 0
    /\ is_fetching = FALSE
    /\ fetch_promise = NoPromise
    /\ now = StartTime
    /\ fetchCount = 0
    /\ phase = [f \in FetchIds |-> "unused"]
    /\ promise = [f \in FetchIds |-> "pending"]
    /\ waiters = [f \in FetchIds |-> <<>>]
    /\ microQ = <<>>
    /\ pc = [c \in Callers |-> "idle"]
    /\ how = [c \in Callers |-> "none"]
    /\ awaiting = [c \in Callers |-> NoPromise]
    /\ expect = [c \in Callers |-> <<>>]
    /\ result = [c \in Callers |-> "none"]
    /\ attempt = NoAttempt

\* The call under study: none yet. op is "type" (validate_node_type) or
\* "batch" (validate_workflow_nodes); pcv is where it stands; frame is the
\* caller frame of its current ensure_node_registry_is_loaded call; the
\* other fields record what it did: the verdict and the key set of each
\* membership test, the fetches its own calls started, the key set when it
\* was called and whether its first ensure call found the cache valid.
\* For a createValidatedWorkflow call, wf is where it stands or how it
\* ended, activate what its input asked for, requests the requests it has
\* sent to the n8n API and id whether the create request returned an id.
NoTask ==
    [op |-> "none", pcv |-> "idle", frame |-> 0, nodes |-> <<>>, idx |-> 0,
     verdicts |-> <<>>, invalid_nodes |-> <<>>, fetches |-> 0,
     keysAtCall |-> {}, keysAtCheck |-> <<>>, fresh |-> FALSE,
     wf |-> "none", activate |-> FALSE, requests |-> <<>>, id |-> FALSE]

\* The frame's ensure_node_registry_is_loaded call was made by the call
\* under study, which continues itself when it returns.
TaskAwaits(c) == task.frame = c /\ task.pcv \in {"upfront", "pop", "node"}

\* distance and score hold what levenshtein_distance and calculate_similarity
\* returned for the queried type and the first key, once they were called.
NoMatch ==
    [registry |-> <<>>, node_type |-> <<>>, answer |-> <<>>,
     distance |-> <<>>, score |-> <<>>]

NoBudget ==
    [value |-> <<>>, out |-> <<>>, tier |-> "none", again |-> <<>>,
     summary |-> <<>>, threw |-> FALSE]

others == << task, matcher, budgeter >>

allvars == << vars, others >>

Init ==
    /\ Constructed
    /\ task = NoTask
    /\ matcher = NoMatch
    /\ budgeter = NoBudget

\* ---------------------------------------------------------------- actions
AlreadyFetching_ignored(flag, p) == flag /\ p = NoPromise

\* if (this.is_fetching && this.fetch_promise)
AlreadyFetching(flag, p) == flag /\ p # NoPromise

JoinReturns_nothing(p) == NoPromise

\* return this.fetch_promise: what a call that finds a fetch in flight returns.
JoinReturns(p) == p

\* A call of ensure_node_registry_is_loaded by c, up to its return or its await.
\* Callers are interchangeable call frames: a new call takes the first idle one.
EnsureCall(c) ==
    /\ pc[c] = "idle"
    /\ \A d \in Callers : d < c => pc[d] # "idle"
    /\ result' = result
    /\ IF AlreadyFetching(is_fetching, fetch_promise)
       THEN \* return this.fetch_promise
            /\ how' = [how EXCEPT ![c] = "joined"]
            /\ awaiting' = [awaiting EXCEPT ![c] = fetch_promise]
            /\ IF JoinReturns(fetch_promise) = NoPromise
               THEN /\ pc' = [pc EXCEPT ![c] = "ret"]
                    /\ expect' = [expect EXCEPT ![c] = <<>>]
                    /\ microQ' = Append(microQ, c)
                    /\ waiters' = waiters
               ELSE IF promise[fetch_promise] = "pending"
               THEN /\ waiters' = [waiters EXCEPT ![fetch_promise] = Append(@, c)]
                    /\ pc' = [pc EXCEPT ![c] = "joined"]
                    /\ expect' = [expect EXCEPT ![c] = <<>>]
                    /\ microQ' = microQ
               ELSE /\ pc' = [pc EXCEPT ![c] = "adopt"]
                    /\ expect' = [expect EXCEPT ![c] = node_registry]
                    /\ microQ' = Append(microQ, c)
                    /\ waiters' = waiters
            /\ UNCHANGED << node_registry, last_fetch_time, is_fetching,
                            fetch_promise, fetchCount, phase, promise, attempt >>
       ELSE IF CacheValid(node_registry, last_fetch_time, now)
       THEN \* return
            /\ how' = [how EXCEPT ![c] = "fresh"]
            /\ awaiting' = [awaiting EXCEPT ![c] = NoPromise]
            /\ expect' = [expect EXCEPT ![c] = <<>>]
            /\ pc' = [pc EXCEPT ![c] = "ret"]
            /\ microQ' = Append(microQ, c)
            /\ UNCHANGED << node_registry, last_fetch_time, is_fetching,
                            fetch_promise, fetchCount, phase, promise, waiters,
                            attempt >>
       ELSE \* this.fetch_promise = this.fetch_node_registry(); await it
            /\ fetchCount < MaxFetches
            /\ LET id == fetchCount + 1 IN
               /\ fetchCount' = id
               /\ is_fetching' = TRUE
               /\ fetch_promise' = id
               /\ phase' = [phase EXCEPT ![id] = "awaitFetch"]
               /\ waiters' = [waiters EXCEPT ![id] = <<c>>]
               /\ awaiting' = [awaiting EXCEPT ![c] = id]
               /\ attempt' = [NoAttempt EXCEPT !.id = id, !.by = c,
                                               !.pre = node_registry,
                                               !.started = now,
                                               !.outcome = "pending"]
            /\ how' = [how EXCEPT ![c] = "started"]
            /\ expect' = [expect EXCEPT ![c] = <<>>]
            /\ pc' = [pc EXCEPT ![c] = "own"]
            /\ UNCHANGED << node_registry, last_fetch_time, promise, microQ >>
    /\ now' = now

\* A call of ensure_node_registry_is_loaded by a caller other than the call
\* under study.
ensure_node_registry_is_loaded(c) ==
    /\ EnsureCall(c)
    /\ UNCHANGED others

Settle_leavesJoiners(id, status, outcome, catalog, fellBack) ==
    /\ phase' = [phase EXCEPT ![id] = "settled"]
    /\ promise' = [promise EXCEPT ![id] = status]
    /\ microQ' = microQ \o << Head(waiters[id]) >>
    /\ waiters' = [waiters EXCEPT ![id] = Tail(@)]
    /\ pc' = [pc EXCEPT ![Head(waiters[id])] = "finally"]
    /\ expect' = [expect EXCEPT ![Head(waiters[id])] = node_registry']
    /\ attempt' = IF attempt.id = id
                  THEN [attempt EXCEPT !.outcome = outcome, !.catalog = catalog,
                                       !.fallback = fellBack]
                  ELSE attempt
    /\ UNCHANGED << is_fetching, fetch_promise, now, fetchCount, how, awaiting,
                    result >>

\* fetch_node_registry call id returns: its promise settles and the
\* continuations of the callers awaiting it are queued.
Settle(id, status, outcome, catalog, fellBack) ==
    /\ phase' = [phase EXCEPT ![id] = "settled"]
    /\ promise' = [promise EXCEPT ![id] = status]
    /\ microQ' = microQ \o waiters[id]
    /\ waiters' = [waiters EXCEPT ![id] = <<>>]
    /\ pc' = [c \in Callers |->
                IF c \in Range(waiters[id])
                THEN (IF pc[c] = "own" THEN "finally" ELSE "adopt")
                ELSE pc[c]]
    /\ expect' = [c \in Callers |->
                    IF c \in Range(waiters[id]) THEN node_registry' ELSE expect[c]]
    /\ attempt' = IF attempt.id = id
                  THEN [attempt EXCEPT !.outcome = outcome, !.catalog = catalog,
                                       !.fallback = fellBack]
                  ELSE attempt
    /\ UNCHANGED << is_fetching, fetch_promise, now, fetchCount, how, awaiting,
                    result >>

\* Control reaches the catch block with the registry as reg.
Catch(id, reg, outcome, catalog) ==
    LET cb == CatchBlock(reg, last_fetch_time, now) IN
    /\ node_registry' = cb.reg
    /\ last_fetch_time' = cb.last
    /\ Settle(id, IF cb.rethrows THEN "rejected" ELSE "fulfilled", outcome,
              catalog, cb.fallback)

\* await fetch(...) rejects: network error.
FetchRejects(id) ==
    /\ microQ = <<>>
    /\ phase[id] = "awaitFetch"
    /\ Catch(id, node_registry, "network", <<>>)
    /\ UNCHANGED others

\* await fetch(...) resolves with response.ok false: the handler throws.
FetchNotOk(id) ==
    /\ microQ = <<>>
    /\ phase[id] = "awaitFetch"
    /\ Catch(id, node_registry, "http", <<>>)
    /\ UNCHANGED others

\* await fetch(...) resolves with response.ok: the handler awaits response.json().
FetchOk(id) ==
    /\ microQ = <<>>
    /\ phase[id] = "awaitFetch"
    /\ phase' = [phase EXCEPT ![id] = "awaitJson"]
    /\ UNCHANGED << node_registry, last_fetch_time, is_fetching, fetch_promise,
                    now, fetchCount, promise, waiters, microQ, pc, how,
                    awaiting, expect, result, attempt >>
    /\ UNCHANGED others

\* await response.json() rejects: the body is no JSON.
JsonRejects(id) ==
    /\ microQ = <<>>
    /\ phase[id] = "awaitJson"
    /\ Catch(id, node_registry, "parse", <<>>)
    /\ UNCHANGED others

\* await response.json() resolves with data: clear, process, stamp.
JsonResolves(id, data) ==
    /\ microQ = <<>>
    /\ phase[id] = "awaitJson"
    /\ LET p == ProcessPayload(data) IN
       IF p.threw
       THEN Catch(id, p.reg, "process", NamedEntries(data))
       ELSE /\ node_registry' = p.reg
            /\ last_fetch_time' = now
            /\ Settle(id, "fulfilled", "success", NamedEntries(data), FALSE)
    /\ UNCHANGED others

Finally_keepsPromise(c) ==
    /\ microQ # <<>> /\ Head(microQ) = c
    /\ pc[c] = "finally"
    /\ is_fetching' = FALSE
    /\ pc' = [pc EXCEPT ![c] = "ret"]
    /\ microQ' = Append(Tail(microQ), c)
    /\ UNCHANGED << node_registry, last_fetch_time, fetch_promise, now,
                    fetchCount, phase, promise, waiters, how, awaiting, expect,
                    result, attempt >>
    /\ UNCHANGED others

\* The continuation of `await this.fetch_promise` in the call that started
\* the fetch: the finally block.
Finally(c) ==
    /\ microQ # <<>> /\ Head(microQ) = c
    /\ pc[c] = "finally"
    /\ is_fetching' = FALSE
    /\ fetch_promise' = NoPromise
    /\ pc' = [pc EXCEPT ![c] = "ret"]
    /\ microQ' = Append(Tail(microQ), c)
    /\ UNCHANGED << node_registry, last_fetch_time, now, fetchCount, phase,
                    promise, waiters, how, awaiting, expect, result,
                    attempt >>
    /\ UNCHANGED others

\* The promise returned by a joining call adopts the settled fetch promise.
Adopt(c) ==
    /\ microQ # <<>> /\ Head(microQ) = c
    /\ pc[c] = "adopt"
    /\ pc' = [pc EXCEPT ![c] = "ret"]
    /\ microQ' = Append(Tail(microQ), c)
    /\ UNCHANGED << node_registry, last_fetch_time, is_fetching, fetch_promise,
                    now, fetchCount, phase, promise, waiters, how, awaiting,
                    expect, result, attempt >>
    /\ UNCHANGED others

\* The caller's `await this.ensure_node_registry_is_loaded()` continues: the
\* call has returned and the caller reads node_registry as it is now, or the
\* rejection of the awaited promise reaches the caller.
Return(c) ==
    /\ microQ # <<>> /\ Head(microQ) = c
    /\ pc[c] = "ret"
    /\ ~ TaskAwaits(c)
    /\ pc' = [pc EXCEPT ![c] = "idle"]
    /\ microQ' = Tail(microQ)
    /\ result' = [result EXCEPT ![c] =
                    IF awaiting[c] # NoPromise /\ promise[awaiting[c]] = "rejected"
                    THEN "raised" ELSE "returned"]
    /\ how' = [how EXCEPT ![c] = "none"]
    /\ awaiting' = [awaiting EXCEPT ![c] = NoPromise]
    /\ expect' = [expect EXCEPT ![c] = <<>>]
    /\ UNCHANGED << node_registry, last_fetch_time, is_fetching, fetch_promise,
                    now, fetchCount, phase, promise, waiters, attempt >>
    /\ UNCHANGED others

Tick ==
    /\ now < StartTime + MaxTicks * TickStep
    /\ now' = now + TickStep
    /\ UNCHANGED << node_registry, last_fetch_time, is_fetching, fetch_promise,
                    fetchCount, phase, promise, waiters, microQ, pc, how,
                    awaiting, expect, result, attempt >>
    /\ UNCHANGED others

Next ==
    \/ \E c \in Callers : ensure_node_registry_is_loaded(c)
    \/ \E id \in FetchIds : FetchRejects(id)
    \/ \E id \in FetchIds : FetchNotOk(id)
    \/ \E id \in FetchIds : FetchOk(id)
    \/ \E id \in FetchIds : JsonRejects(id)
    \/ \E id \in FetchIds, data \in Payloads : JsonResolves(id, data)
    \/ \E c \in Callers : Finally(c)
    \/ \E c \in Callers : Adopt(c)
    \/ \E c \in Callers : Return(c)
    \/ Tick

Spec == Init /\ [][Next]_allvars

TypeOK ==
    /\ is_fetching \in BOOLEAN
    /\ fetch_promise \in FetchIds \cup {NoPromise}
    /\ now \in Times
    /\ fetchCount \in 0..MaxFetches
    /\ \A c \in Callers : pc[c] \in {"idle", "own", "joined", "finally", "adopt", "ret"}

\* ----------------------------------------------------------------- claims
Outstanding == {id \in FetchIds : phase[id] \in {"awaitFetch", "awaitJson"}}

\* c's call is completing: its return is the next continuation to run.
Returning(c) == microQ # <<>> /\ Head(microQ) = c /\ pc[c] = "ret"

\* C1: at most one remote fetch is outstanding, and every caller that waits
\* (the one that started it and all that called meanwhile) waits for that one.
C1_SingleFlight ==
    /\ Cardinality(Outstanding) <= 1
    /\ \A c \in Callers :
          pc[c] \in {"own", "joined"} =>
              /\ awaiting[c] = fetch_promise
              /\ Outstanding = {awaiting[c]}

C1_Witness ==
    /\ fetchCount = 1
    /\ \E c, d \in Callers :
          /\ pc[c] = "own" /\ pc[d] = "joined"
          /\ awaiting[c] = 1 /\ awaiting[d] = 1
          /\ phase[1] = "awaitJson"

\* C2: a caller that found a refresh in flight gets on only after that
\* refresh has completed, from then to its return the registry is what that
\* refresh left, and it has started no fetch itself.
C2_JoinersSeeThatRefresh ==
    \A c \in Callers :
        how[c] = "joined" =>
            /\ attempt.by # c
            /\ pc[c] \in {"adopt", "ret"} =>
                  /\ phase[awaiting[c]] = "settled"
                  /\ node_registry = expect[c]

\* A joiner returns after the caller that started the fetch has already
\* started the next one.
C2_Witness ==
    \E c \in Callers :
        /\ how[c] = "joined" /\ Returning(c)
        /\ attempt.id > awaiting[c]
        /\ Len(node_registry) > 0

\* The latest refresh attempt has failed, and no later one has started.
AttemptFailed == attempt.outcome \in Failures

\* C3: after a refresh attempt that failed (fetch error, non-OK status,
\* parse failure or processing failure) on a registry that held data, the
\* registry is what it was before the attempt.
C3_FailedRefreshKeepsRegistry ==
    (AttemptFailed /\ attempt.pre # <<>>) => node_registry = attempt.pre

\* C4, as claimed: after a failed attempt that kept the stale data,
\* last_fetch_time is the time of the attempt.
C4_FailedRefreshStampsTime ==
    (AttemptFailed /\ attempt.pre # <<>> /\ ~attempt.fallback) =>
        last_fetch_time >= attempt.started

\* C4, amended: after a failed attempt that kept the stale data,
\* last_fetch_time is still what it was when the attempt started, a full
\* CACHE_DURATION or more before it; so the cache is still not valid and a
\* call made while no fetch is in flight starts a fetch again.
C4_FailedRefreshLeavesTime ==
    (AttemptFailed /\ attempt.pre # <<>> /\ ~attempt.fallback) =>
        /\ attempt.started - last_fetch_time >= CACHE_DURATION
        /\ ~CacheValid(node_registry, last_fetch_time, now)

C4_Witness ==
    /\ attempt.outcome \in {"network", "http", "parse"}
    /\ attempt.pre # <<>>
    /\ node_registry = attempt.pre
    /\ ~is_fetching
    /\ now > attempt.started

\* C5: when a call of ensureFresh returns, the registry is not empty.
C5_ServableOnReturn ==
    \A c \in Callers : Returning(c) => Len(node_registry) > 0

C7_FreshCallIsNoOp ==
    [][\A c \in Callers :
          ( /\ pc[c] = "idle" /\ pc'[c] # "idle"
            /\ ~is_fetching
            /\ Len(node_registry) > 0
            /\ now - last_fetch_time < CACHE_DURATION )
          => ( /\ pc'[c] = "ret"
               /\ UNCHANGED << node_registry, last_fetch_time, is_fetching,
                               fetch_promise, fetchCount, phase >> )]_vars

C7_Witness ==
    \E c \in Callers :
        /\ how[c] = "fresh" /\ Returning(c)
        /\ now - last_fetch_time = TickStep

\* C8: last_fetch_time changes only in the step that completes a refresh
\* attempt, and only if the attempt succeeded or applied the fallback; it
\* is then the time of that step.
C8_StampOnlyOnCompletion ==
    [][last_fetch_time' # last_fetch_time =>
          /\ \E id \in FetchIds :
                /\ phase[id] \in {"awaitFetch", "awaitJson"}
                /\ phase'[id] = "settled"
                /\ attempt'.id = id
          /\ attempt'.outcome = "success" \/ attempt'.fallback
          /\ last_fetch_time' = now]_vars

\* A failed attempt on stale data has completed and left the stamp of the
\* earlier success.
C8_Witness ==
    /\ AttemptFailed /\ ~attempt.fallback
    /\ attempt.id = 2
    /\ last_fetch_time = StartTime
    /\ now > last_fetch_time

\* C9: a refresh that fails on an empty registry leaves exactly the fallback
\* entries, and the fallback is applied only if the registry was empty
\* before the attempt.
C9_FallbackOnlyWhenEmpty ==
    /\ (AttemptFailed /\ attempt.pre = <<>>) => node_registry = fallback_nodes
    /\ attempt.fallback => attempt.pre = <<>>

\* C10: from the start of a refresh on, the registry is the complete
\* previous snapshot, the complete catalog of the payload, or the complete
\* fallback set.
C10_NoPartialRegistry ==
    attempt.outcome # "none" =>
        \/ node_registry = attempt.pre
        \/ node_registry = fallback_nodes
        \/ /\ attempt.outcome \in {"success", "process"}
           /\ node_registry = attempt.catalog

\* C11: after a successful refresh the keys of the registry are exactly the
\* names carried by the payload's entries: nameless entries are skipped,
\* the named ones around them are kept, and nothing of the previous
\* snapshot is left unless the payload names it.
C11_RegistryIsCatalog ==
    attempt.outcome = "success" =>
        /\ Range(node_registry) = Range(attempt.catalog)
        /\ Cardinality(Range(node_registry)) = Len(node_registry)

\* A successful refresh has replaced a snapshot with a name the payload
\* does not carry.
C11_Witness ==
    /\ attempt.outcome = "success"
    /\ attempt.catalog # <<>>
    /\ \E n \in Range(attempt.pre) : n \notin Range(node_registry)
    /\ Range(node_registry) = Range(attempt.catalog)

\* ============================================ validate_node_type's matcher
\* Node type names as sequences of characters, as the similarity code sees
\* them.
Prefix ==
    << "n", "8", "n", "-", "n", "o", "d", "e", "s", "-", "b", "a", "s", "e", "." >>

\* The characters of the node type names that occur as registry keys.
Chars ==
       ("n8n-nodes-base.start" :> Prefix \o << "s", "t", "a", "r", "t" >>)
    @@ ("n8n-nodes-base.manualTrigger" :>
            Prefix \o << "m", "a", "n", "u", "a", "l", "T", "r", "i", "g", "g", "e", "r" >>)
    @@ ("n8n-nodes-base.httpRequest" :>
            Prefix \o << "h", "t", "t", "p", "R", "e", "q", "u", "e", "s", "t" >>)
    @@ ("n8n-nodes-base.set" :> Prefix \o << "s", "e", "t" >>)
    @@ ("n8n-nodes-base.function" :>
            Prefix \o << "f", "u", "n", "c", "t", "i", "o", "n" >>)
    @@ ("n8n-nodes-base.if" :> Prefix \o << "i", "f" >>)
    @@ ("n8n-nodes-base.switch" :> Prefix \o << "s", "w", "i", "t", "c", "h" >>)
    @@ ("n8n-nodes-base.merge" :> Prefix \o << "m", "e", "r", "g", "e" >>)
    @@ ("n8n-nodes-base.webhook" :> Prefix \o << "w", "e", "b", "h", "o", "o", "k" >>)

UpperCaseLetters ==
    << "A", "B", "C", "D", "E", "F", "G", "H", "I", "J", "K", "L", "M",
       "N", "O", "P", "Q", "R", "S", "T", "U", "V", "W", "X", "Y", "Z" >>

LowerCaseLetters ==
    << "a", "b", "c", "d", "e", "f", "g", "h", "i", "j", "k", "l", "m",
       "n", "o", "p", "q", "r", "s", "t", "u", "v", "w", "x", "y", "z" >>

\* String.prototype.toLowerCase
toLowerCase(s) ==
    [i \in 1..Len(s) |->
        IF \E k \in 1..26 : UpperCaseLetters[k] = s[i]
        THEN LowerCaseLetters[CHOOSE k \in 1..26 : UpperCaseLetters[k] = s[i]]
        ELSE s[i]]

Min3_noInsertion(x, y, z) == IF x <= z THEN x ELSE z

Min3(x, y, z) ==
    IF x <= y /\ x <= z THEN x ELSE IF y <= z THEN y ELSE z

\* Row i of the matrix from row i - 1 (above), cell by cell: row holds the
\* cells 0..j-1 and cell j is the least of deletion, insertion and
\* substitution.
RECURSIVE MatrixRow(_, _, _, _)
MatrixRow(above, ch, b, row) ==
    LET j == Len(row) IN
    IF j > Len(b) THEN row
    ELSE LET cost == IF ch = b[j] THEN 0 ELSE 1 IN
         MatrixRow(above, ch, b,
            Append(row, Min3(above[j + 1] + 1, row[j] + 1, above[j] + cost)))

\* The matrix, row by row: row 0 is 0..b.length, row i starts with i.
RECURSIVE MatrixRows(_, _, _)
MatrixRows(a, b, matrix) ==
    LET i == Len(matrix) IN
    IF i > Len(a) THEN matrix
    ELSE MatrixRows(a, b, Append(matrix, MatrixRow(matrix[i], a[i], b, << i >>)))

\* levenshtein_distance(a, b) = matrix[a.length][b.length]
levenshtein_distance(a, b) ==
    MatrixRows(a, b, << [j \in 1..(Len(b) + 1) |-> j - 1] >>)[Len(a) + 1][Len(b) + 1]

\* A score is the number n / d; d = 0 stands for NaN (0 / 0).
ScoreZero == [n |-> 0, d |-> 1]

\* x > y on scores; a comparison with NaN is false.
Greater(x, y) == x.d # 0 /\ y.d # 0 /\ x.n * y.d > y.n * x.d

\* calculate_similarity(a, b) = 1 - distance / max_length
calculate_similarity(a, b) ==
    LET la == toLowerCase(a)
        lb == toLowerCase(b)
        max_length == IF Len(la) >= Len(lb) THEN Len(la) ELSE Len(lb)
        distance == levenshtein_distance(la, lb)
    IN  [n |-> max_length - distance, d |-> max_length]

AboveThreshold_orEqual(score) ==
    score.d # 0 /\ 10 * score.n >= 6 * score.d

AboveThreshold_any(score) == TRUE

\* score > 0.6
AboveThreshold(score) == Greater(score, [n |-> 6, d |-> 10])

Beats_ties(score, best_score) == ~ Greater(best_score, score)

\* score > best_score
Beats(score, best_score) == Greater(score, best_score)

NoSuggestion == <<>>

\* The loop of find_similar_node_type over the keys from index i on.
RECURSIVE BestFrom(_, _, _, _, _)
BestFrom(node_type, keys, i, best_match, best_score) ==
    IF i > Len(keys) THEN best_match
    ELSE LET score == calculate_similarity(node_type, keys[i]) IN
         IF Beats(score, best_score) /\ AboveThreshold(score)
         THEN BestFrom(node_type, keys, i + 1, keys[i], score)
         ELSE BestFrom(node_type, keys, i + 1, best_match, best_score)

find_similar_node_type(node_type, keys) ==
    BestFrom(node_type, keys, 1, NoSuggestion, ScoreZero)

Validation_foldsCase(node_type, keys) ==
    IF \E i \in 1..Len(keys) : toLowerCase(keys[i]) = toLowerCase(node_type)
    THEN [valid |-> TRUE, suggestion |-> NoSuggestion]
    ELSE [valid |-> FALSE, suggestion |-> find_similar_node_type(node_type, keys)]

Validation_never(node_type, keys) ==
    [valid |-> FALSE, suggestion |-> find_similar_node_type(node_type, keys)]

\* What validate_node_type answers once the registry is loaded with keys.
Validation(node_type, keys) ==
    IF node_type \in Range(keys)
    THEN [valid |-> TRUE, suggestion |-> NoSuggestion]
    ELSE [valid |-> FALSE, suggestion |-> find_similar_node_type(node_type, keys)]

\* ---- the matcher on its own: one registry, one queried type, one answer
MaxNameLen == 6
MaxKeys == 2

Alphabet == {"a", "b", "A"}

\* The queried types: every string over the alphabet up to MaxNameLen, and
\* three full names, one of them a transposition of a fallback name.
Queries ==
    SeqsUpTo(Alphabet, MaxNameLen)
        \cup { Prefix \o << "h", "t", "t", "p", "R", "e", "q", "e", "u", "s", "t" >>,
               Chars["n8n-nodes-base.webhook"],
               Chars["n8n-nodes-base.set"] }

KeyPool ==
    { << "a", "b", "a" >>, << "a", "b", "b" >>, << "A", "b", "a" >>,
      << "a", "b", "a", "b", "a", "b" >> }

\* The registries: up to MaxKeys distinct keys in any insertion order, and
\* the fallback set.
Registries ==
    { r \in SeqsUpTo(KeyPool, MaxKeys) : Cardinality(Range(r)) = Len(r) }
        \cup { [i \in 1..Len(fallback_nodes) |-> Chars[fallback_nodes[i]]] }

InitMatcher ==
    /\ Constructed
    /\ task = NoTask
    /\ budgeter = NoBudget
    /\ \E r \in Registries, q \in Queries :
          matcher = [NoMatch EXCEPT !.registry = r, !.node_type = q]

\* validate_node_type(node_type) from the membership test on, on a loaded
\* registry.
Answer ==
    /\ matcher.answer = <<>>
    /\ matcher' = [matcher EXCEPT
                      !.answer = << Validation(matcher.node_type, matcher.registry) >>]
    /\ UNCHANGED << vars, task, budgeter >>

NextMatcher == Answer

SpecMatcher == InitMatcher /\ [][NextMatcher]_allvars

Answered == matcher.answer # <<>>

\* score > 0.6, as a comparison of fractions
Over06(score) == score.d # 0 /\ 10 * score.n > 6 * score.d

\* C15: a suggestion is given only with valid = false, and a suggestion
\* that is given is a key of the registry whose similarity to the queried
\* type is strictly above 0.6.
C15_SuggestionIsCloseKey ==
    Answered =>
        LET a == matcher.answer[1] IN
        /\ a.valid => a.suggestion = NoSuggestion
        /\ a.valid <=> matcher.node_type \in Range(matcher.registry)
        /\ a.suggestion # NoSuggestion =>
              /\ ~ a.valid
              /\ a.suggestion \in Range(matcher.registry)
              /\ Over06(calculate_similarity(matcher.node_type, a.suggestion))

\* An unknown type got a suggestion although another key of the registry
\* is not similar enough to be one.
C15_Witness ==
    /\ Answered
    /\ matcher.answer[1].suggestion # NoSuggestion
    /\ \E k \in Range(matcher.registry) :
          ~ Over06(calculate_similarity(matcher.node_type, k))

\* The keys that are within edit distance 1 or 2 of the queried type and
\* more than 0.6 similar to it, the queried type being no key itself.
NearKeys ==
    { k \in Range(matcher.registry) :
        /\ matcher.node_type \notin Range(matcher.registry)
        /\ levenshtein_distance(matcher.node_type, k) \in {1, 2}
        /\ Over06(calculate_similarity(matcher.node_type, k)) }

\* The first key, in insertion order, that no key is more similar than.
FirstBest ==
    LET r == matcher.registry
        sim(i) == calculate_similarity(matcher.node_type, r[i])
        best == { i \in 1..Len(r) : \A j \in 1..Len(r) : ~ Greater(sim(j), sim(i)) }
    IN  r[CHOOSE i \in best : \A j \in best : i <= j]

\* C16 as written: every near key is the suggestion.
C16_SuggestsThatName ==
    Answered =>
        \A k \in NearKeys :
            matcher.answer[1] = [valid |-> FALSE, suggestion |-> k]

\* C16: an unknown type with a near key is answered valid = false with a
\* suggestion, and the suggestion is the first key of greatest similarity:
\* the near key itself unless another key is at least as similar.
C16_SuggestsBestName ==
    Answered /\ NearKeys # {} =>
        LET a == matcher.answer[1] IN
        /\ ~ a.valid
        /\ a.suggestion = FirstBest
        /\ \A k \in NearKeys :
              \/ a.suggestion = k
              \/ ~ Greater(calculate_similarity(matcher.node_type, k),
                           calculate_similarity(matcher.node_type, a.suggestion))

\* Two near keys: the answer suggests one and not the other.
C16_Witness ==
    /\ Answered
    /\ \E k \in NearKeys : matcher.answer[1].suggestion = k
    /\ \E k \in NearKeys : matcher.answer[1].suggestion # k

\* ================================ validate_node_type, validate_workflow_nodes
\* One call of validate_node_type or validate_workflow_nodes runs next to
\* the other callers of ensure_node_registry_is_loaded.
MaxNodes == 2

\* The declared types of the nodes of a batch: a name the remote may serve
\* and one that only the fallback set has.
BatchTypes == {"n8n-nodes-base.webhook", "n8n-nodes-base.set"}

Batches == SeqsUpTo(BatchTypes, MaxNodes)

\* The call under study and one other caller at a time: two frames.
Frames == {c \in Callers : c <= 2}

\* The continuation of the batch's `await this.validate_node_type(...)` in
\* the queue of continuations.
Token == 0

KeysOf(reg) == [i \in 1..Len(reg) |-> Chars[reg[i]]]

\* The registries a refresh can leave: the named entries of a payload, or
\* the fallback set.
KnownRegistries ==
    { r \in SeqsUpTo(RemoteNames, 2) : Cardinality(Range(r)) = Len(r) }
        \cup { fallback_nodes }

\* validate_node_type's answer for each declared type on each registry.
Answers ==
    [t \in BatchTypes, r \in KnownRegistries |-> Validation(Chars[t], KeysOf(r))]

Push_once(list, entry) ==
    IF \E i \in 1..Len(list) : list[i].node_type = entry.node_type
    THEN list ELSE Append(list, entry)

\* invalid_nodes.push({ node_type, suggestion })
Push(list, entry) == Append(list, entry)

\* The call under study calls ensure_node_registry_is_loaded in frame c.
TaskCalls(c) ==
    /\ c \in Frames
    /\ EnsureCall(c)
    /\ UNCHANGED << matcher, budgeter >>

\* `await this.ensure_node_registry_is_loaded()` continues in the call under
\* study, which leaves q as the queue of continuations.
Resume(c, q) ==
    /\ microQ # <<>> /\ Head(microQ) = c
    /\ pc[c] = "ret"
    /\ pc' = [pc EXCEPT ![c] = "idle"]
    /\ microQ' = q
    /\ result' = [result EXCEPT ![c] =
                    IF awaiting[c] # NoPromise /\ promise[awaiting[c]] = "rejected"
                    THEN "raised" ELSE "returned"]
    /\ how' = [how EXCEPT ![c] = "none"]
    /\ awaiting' = [awaiting EXCEPT ![c] = NoPromise]
    /\ expect' = [expect EXCEPT ![c] = <<>>]
    /\ UNCHANGED << node_registry, last_fetch_time, is_fetching, fetch_promise,
                    now, fetchCount, phase, promise, waiters, attempt >>
    /\ UNCHANGED << matcher, budgeter >>

\* validate_node_type(node_type) is called: up to its await.
validate_node_type(node_type) ==
    /\ task.op = "none"
    /\ \E c \in Callers :
          /\ TaskCalls(c)
          /\ task' = [NoTask EXCEPT !.op = "type", !.pcv = "node", !.frame = c,
                                    !.nodes = << node_type >>, !.idx = 1,
                                    !.fetches = fetchCount' - fetchCount,
                                    !.keysAtCall = Range(node_registry),
                                    !.fresh = (how'[c] = "fresh")]

\* validate_workflow_nodes(nodes) is called: up to its first await.
validate_workflow_nodes(nodes) ==
    /\ task.op = "none"
    /\ \E c \in Callers :
          /\ TaskCalls(c)
          /\ task' = [NoTask EXCEPT !.op = "batch", !.pcv = "upfront", !.frame = c,
                                    !.nodes = nodes, !.idx = 1,
                                    !.fetches = fetchCount' - fetchCount,
                                    !.keysAtCall = Range(node_registry),
                                    !.fresh = (how'[c] = "fresh")]

\* The batch continues after its own ensure call: with no node it returns,
\* otherwise it goes on, in the same run, to call validate_node_type for the
\* first node (NodeCall, then Pop).
BatchContinues ==
    /\ task.pcv = "upfront"
    /\ Resume(task.frame, IF task.nodes = <<>> THEN Tail(microQ)
                          ELSE << Token >> \o Tail(microQ))
    /\ task' = [task EXCEPT !.pcv = IF task.nodes = <<>> THEN "done" ELSE "call"]

\* The continuation of the batch is running: validate_node_type for node idx
\* calls ensure_node_registry_is_loaded and awaits it.
NodeCall ==
    /\ task.pcv = "call"
    /\ microQ # <<>> /\ Head(microQ) = Token
    /\ \E c \in Callers :
          /\ TaskCalls(c)
          /\ task' = [task EXCEPT !.pcv = "pop", !.frame = c,
                                  !.fetches = @ + fetchCount' - fetchCount]

\* The run that made the call ends: its continuation leaves the queue.
Pop ==
    /\ task.pcv = "pop"
    /\ microQ # <<>> /\ Head(microQ) = Token
    /\ microQ' = Tail(microQ)
    /\ task' = [task EXCEPT !.pcv = "node"]
    /\ UNCHANGED << node_registry, last_fetch_time, is_fetching, fetch_promise,
                    now, fetchCount, phase, promise, waiters, pc, how,
                    awaiting, expect, result, attempt, matcher, budgeter >>

\* validate_node_type continues after its await: the membership test, the
\* suggestion, and its return; in a batch the loop's continuation is queued
\* (it pushes the entry of an invalid node) when nodes are left.
NodeChecked ==
    /\ task.pcv = "node"
    /\ LET more == task.op = "batch" /\ task.idx < Len(task.nodes)
           t == task.nodes[task.idx]
           v == Answers[t, node_registry]
       IN  /\ Resume(task.frame, IF more THEN Append(Tail(microQ), Token)
                                 ELSE Tail(microQ))
           /\ task' = [task EXCEPT
                         !.pcv = IF more THEN "call" ELSE "done",
                         !.idx = IF more THEN @ + 1 ELSE @,
                         !.verdicts = Append(@, v.valid),
                         !.keysAtCheck = Append(@, Range(node_registry)),
                         !.invalid_nodes =
                            IF v.valid \/ task.op = "type" THEN @
                            ELSE Push(@, [node_type |-> t,
                                          suggestion |-> v.suggestion])]

\* What the remote serves while the call under study runs: no entry, or
\* one of the two names.
BatchPayloads == SeqsUpTo(RemoteNames, 1)

NextValidator ==
    \/ \E c \in Frames : ensure_node_registry_is_loaded(c)
    \/ \E id \in FetchIds : FetchRejects(id)
    \/ \E id \in FetchIds : FetchOk(id)
    \/ \E id \in FetchIds, data \in BatchPayloads : JsonResolves(id, data)
    \/ \E c \in Callers : Finally(c)
    \/ \E c \in Callers : Adopt(c)
    \/ \E c \in Callers : Return(c)
    \/ Tick
    \/ \E node_type \in BatchTypes : validate_node_type(node_type)
    \/ \E nodes \in Batches : validate_workflow_nodes(nodes)
    \/ BatchContinues
    \/ NodeCall
    \/ Pop
    \/ NodeChecked

SpecValidator == Init /\ [][NextValidator]_allvars

\* C12 as written: a type that is a key when validate_node_type is called
\* is answered valid.
C12_ValidIfKeyAtCall ==
    task.op = "type" /\ task.verdicts # <<>> /\ task.nodes[1] \in task.keysAtCall
        => task.verdicts[1]

\* C12: validate_node_type answers valid exactly for a type that is a key
\* when the membership test runs, after its ensure call has returned; when
\* that call found the cache valid and no refresh in flight, the keys are
\* still those of the time of the call.
C12_ValidIffKeyAtCheck ==
    task.op = "type" /\ task.verdicts # <<>> =>
        /\ task.verdicts[1] <=> task.nodes[1] \in task.keysAtCheck[1]
        /\ task.fresh => task.keysAtCheck[1] = task.keysAtCall

\* A type that was a key at the call is answered invalid: the refresh the
\* call waited for has replaced the registry.
C12_Witness ==
    /\ task.op = "type" /\ task.verdicts # <<>>
    /\ ~ task.fresh
    /\ task.nodes[1] \in task.keysAtCall
    /\ ~ task.verdicts[1]

\* C13 as written: the ensure calls of one validate_workflow_nodes call
\* start at most one fetch.
C13_AtMostOneFetch == task.op = "batch" => task.fetches <= 1

\* The types of the nodes answered invalid so far, in input order.
RECURSIVE InvalidTypes(_, _)
InvalidTypes(nodes, verdicts) ==
    IF verdicts = <<>> THEN <<>>
    ELSE IF Head(verdicts) THEN InvalidTypes(Tail(nodes), Tail(verdicts))
    ELSE << Head(nodes) >> \o InvalidTypes(Tail(nodes), Tail(verdicts))

\* C14: validate_workflow_nodes holds one entry per node checked whose type
\* was no key when it was checked, in input order and once per occurrence,
\* and none for the others; it returns when every node has been checked.
C14_OneEntryPerInvalidNode ==
    task.op = "batch" =>
        /\ [i \in 1..Len(task.invalid_nodes) |-> task.invalid_nodes[i].node_type]
              = InvalidTypes(task.nodes, task.verdicts)
        /\ \A i \in 1..Len(task.verdicts) :
              task.verdicts[i] <=> task.nodes[i] \in task.keysAtCheck[i]
        /\ task.pcv = "done" => Len(task.verdicts) = Len(task.nodes)

\* A batch has returned two entries for two nodes of one invalid type.
C14_Witness ==
    /\ task.op = "batch" /\ task.pcv = "done"
    /\ Len(task.nodes) = 2 /\ task.nodes[1] = task.nodes[2]
    /\ Len(task.invalid_nodes) = 2

\* C20 as written: two nodes of one batch with the same type get the same
\* verdict.
C20_SameVerdictForSameType ==
    task.op = "batch" =>
        \A i, j \in 1..Len(task.verdicts) :
            task.nodes[i] = task.nodes[j] => task.verdicts[i] = task.verdicts[j]

\* ==================================================== the response budgeter
\* Texts (JavaScript strings) as runs of equal characters, so that texts of
\* tens of thousands of characters stay small: a text is a sequence of runs
\* [c |-> character, n |-> length >= 1] in which neighbours differ in c.
Rep(ch, n) == IF n <= 0 THEN <<>> ELSE << [c |-> ch, n |-> n] >>

\* a + b on strings
Cat(a, b) ==
    IF a = <<>> THEN b
    ELSE IF b = <<>> THEN a
    ELSE IF a[Len(a)].c = b[1].c
    THEN SubSeq(a, 1, Len(a) - 1)
            \o << [c |-> b[1].c, n |-> a[Len(a)].n + b[1].n] >> \o Tail(b)
    ELSE a \o b

\* The texts of a sequence, concatenated.
RECURSIVE Join(_)
Join(texts) ==
    IF texts = <<>> THEN <<>>
    ELSE IF Len(texts) = 1 THEN texts[1]
    ELSE LET h == Len(texts) \div 2
         IN  Cat(Join(SubSeq(texts, 1, h)), Join(SubSeq(texts, h + 1, Len(texts))))

\* The text of a string literal: one run from each character that differs
\* from the one before it.
Lit(chars) ==
    LET starts == SelectSeq([i \in 1..Len(chars) |-> i],
                            LAMBDA i : i = 1 \/ chars[i] # chars[i - 1])
    IN  [j \in 1..Len(starts) |->
            [c |-> chars[starts[j]],
             n |-> (IF j < Len(starts) THEN starts[j + 1] ELSE Len(chars) + 1)
                      - starts[j]]]

\* text.length
RECURSIVE TextLen(_)
TextLen(t) ==
    IF t = <<>> THEN 0
    ELSE IF Len(t) = 1 THEN t[1].n
    ELSE LET h == Len(t) \div 2
         IN  TextLen(SubSeq(t, 1, h)) + TextLen(SubSeq(t, h + 1, Len(t)))

\* text.substring(0, k)
RECURSIVE Take(_, _)
Take(t, k) ==
    IF k <= 0 \/ t = <<>> THEN <<>>
    ELSE IF Len(t) = 1 THEN Rep(t[1].c, IF t[1].n >= k THEN k ELSE t[1].n)
    ELSE LET h == Len(t) \div 2
             left == SubSeq(t, 1, h)
         IN  IF k <= TextLen(left) THEN Take(left, k)
             ELSE left \o Take(SubSeq(t, h + 1, Len(t)), k - TextLen(left))

\* text.substring(k)
RECURSIVE Drop(_, _)
Drop(t, k) ==
    IF k <= 0 \/ t = <<>> THEN t
    ELSE IF Len(t) = 1 THEN Rep(t[1].c, t[1].n - k)
    ELSE LET h == Len(t) \div 2
             left == SubSeq(t, 1, h)
             right == SubSeq(t, h + 1, Len(t))
         IN  IF k >= TextLen(left) THEN Drop(right, k - TextLen(left))
             ELSE Drop(left, k) \o right

\* text.endsWith(m)
EndsWith(t, m) ==
    /\ TextLen(t) >= TextLen(m)
    /\ Drop(t, TextLen(t) - TextLen(m)) = m

\* n copies of the two characters backslash, ch
Escaped(ch, n) ==
    IF ch = "\\" THEN Rep(ch, 2 * n)
    ELSE [i \in 1..(2 * n) |-> [c |-> IF i % 2 = 1 THEN "\\" ELSE ch, n |-> 1]]

\* The escapes JSON.stringify applies inside a string: quote, backslash and
\* newline.
Escape(t) ==
    Join([i \in 1..Len(t) |->
            IF t[i].c \in {"\"", "\\"} THEN Escaped(t[i].c, t[i].n)
            ELSE IF t[i].c = "\n" THEN Escaped("n", t[i].n)
            ELSE << t[i] >>])

Quote_raw(t) == t

\* JSON.stringify of a string
Quote(t) == Join(<< Lit(<< "\"" >>), Escape(t), Lit(<< "\"" >>) >>)

Digits == << "0", "1", "2", "3", "4", "5", "6", "7", "8", "9" >>

\* String(n) for a natural number
RECURSIVE NumText(_)
NumText(n) ==
    IF n < 10 THEN Rep(Digits[n + 1], 1)
    ELSE Cat(NumText(n \div 10), Rep(Digits[(n % 10) + 1], 1))

\* JavaScript values: strings, natural numbers, null, undefined, objects
\* (members in key order) and arrays.
Str(t) == [k |-> "str", s |-> t, n |-> 0, m |-> <<>>]
Num(n) == [k |-> "num", s |-> <<>>, n |-> n, m |-> <<>>]
Null == [k |-> "null", s |-> <<>>, n |-> 0, m |-> <<>>]
Undefined == [k |-> "undefined", s |-> <<>>, n |-> 0, m |-> <<>>]
Obj(members) == [k |-> "obj", s |-> <<>>, n |-> 0, m |-> members]
Arr(elements) == [k |-> "arr", s |-> <<>>, n |-> 0, m |-> elements]

Member(key, v) == [key |-> Lit(key), v |-> v]

\* v.key; undefined when v has no such member.
Get(v, key) ==
    IF v.k = "obj" /\ \E i \in 1..Len(v.m) : v.m[i].key = Lit(key)
    THEN v.m[CHOOSE i \in 1..Len(v.m) : v.m[i].key = Lit(key)].v
    ELSE Undefined

\* ToBoolean(v)
Truthy(v) ==
    CASE v.k = "str" -> v.s # <<>>
      [] v.k = "num" -> v.n # 0
      [] v.k \in {"null", "undefined"} -> FALSE
      [] OTHER -> TRUE

\* JSON.stringify(v, null, 2) at nesting depth ind / 2; an undefined member
\* is left out, an undefined element is written null.
RECURSIVE Stringify(_, _)
Stringify(v, ind) ==
    CASE v.k = "str" -> Quote(v.s)
      [] v.k = "num" -> NumText(v.n)
      [] v.k \in {"null", "undefined"} -> Lit(<< "n", "u", "l", "l" >>)
      [] v.k = "arr" ->
            IF v.m = <<>> THEN Lit(<< "[", "]" >>)
            ELSE Join(<< Lit(<< "[", "\n" >>),
                         Join([i \in 1..Len(v.m) |->
                                Join(<< Rep(" ", ind + 2), Stringify(v.m[i], ind + 2),
                                        IF i < Len(v.m) THEN Lit(<< ",",
                                                "\n" >>) ELSE <<>> >>)]),
                         Lit(<< "\n" >>), Rep(" ", ind), Lit(<< "]" >>) >>)
      [] v.k = "obj" ->
            LET present == SelectSeq(v.m, LAMBDA p : p.v.k # "undefined") IN
            IF present = <<>> THEN Lit(<< "{", "}" >>)
            ELSE Join(<< Lit(<< "{", "\n" >>),
                         Join([i \in 1..Len(present) |->
                                Join(<< Rep(" ", ind + 2), Quote(present[i].key),
                                        Lit(<< ":",
                                                " " >>), Stringify(present[i].v, ind + 2),
                                        IF i < Len(present) THEN Lit(<< ",", "\n" >>)
                                        ELSE <<>> >>)]),
                         Lit(<< "\n" >>), Rep(" ", ind), Lit(<< "}" >>) >>)

MAX_RESPONSE_TOKENS == 8000

TRUNCATION_MESSAGE ==
    Lit(<< "\n", "\n", "[", "R", "e", "s", "p", "o", "n", "s", "e", " ", "t", "r",
            "u", "n", "c", "a", "t", "e", "d", " ", "d", "u", "e", " ", "t", "o",
            " ", "s", "i", "z", "e", " ", "l", "i", "m", "i", "t", "s", ".", " ",
            "U", "s", "e", " ", "m", "o", "r", "e", " ", "s", "p", "e", "c", "i",
            "f", "i", "c", " ", "f", "i", "l", "t", "e", "r", "i", "n", "g", " ",
            "o", "r", " ", "p", "a", "g", "i", "n", "a", "t", "i", "o", "n", " ",
            "t", "o", " ", "g", "e", "t", " ", "c", "o", "m", "p", "l", "e", "t",
            "e", " ", "d", "a", "t", "a", ".", "]" >>)

\* estimateTokenCount(text) = Math.ceil(text.length / 3.5)
estimateTokenCount(text) == (2 * TextLen(text) + 6) \div 7

Fits_always(text) == TRUE

Fits_never(text) == FALSE

\* estimateTokenCount(text) <= MAX_RESPONSE_TOKENS
Fits(text) == estimateTokenCount(text) <= MAX_RESPONSE_TOKENS

\* Object.keys(v).length
KeyCount(v) ==
    CASE v.k \in {"obj", "arr"} -> Len(v.m)
      [] v.k = "str" -> TextLen(v.s)
      [] OTHER -> 0

\* truncateExecutionItem(execution)
truncateExecutionItem(execution) ==
    IF ~ Truthy(execution) THEN execution
    ELSE LET data == Get(execution, << "d", "a", "t", "a" >>)
             resultData == Get(data, << "r", "e", "s", "u", "l", "t", "D", "a", "t",
                     "a" >>)
             runData == Get(resultData, << "r", "u", "n", "D", "a", "t", "a" >>)
             hasResults == IF Truthy(runData) THEN KeyCount(runData) ELSE 0
         IN  Obj(<< Member(<< "i", "d" >>, Get(execution, << "i", "d" >>)),
                    Member(<< "m", "o", "d", "e" >>, Get(execution, << "m", "o",
                            "d", "e" >>)),
                    Member(<< "s", "t", "a", "t", "u",
                            "s" >>, Get(execution, << "s", "t", "a", "t", "u", "s" >>)),
                    Member(<< "s", "t", "a", "r", "t", "e", "d", "A",
                            "t" >>, Get(execution, << "s", "t", "a", "r", "t", "e",
                            "d", "A", "t" >>)),
                    Member(<< "s", "t", "o", "p", "p", "e", "d", "A",
                            "t" >>, Get(execution, << "s", "t", "o", "p", "p", "e",
                            "d", "A", "t" >>)),
                    Member(<< "w", "o", "r", "k", "f", "l", "o", "w", "I",
                            "d" >>, Get(execution, << "w", "o", "r", "k", "f", "l",
                            "o", "w", "I", "d" >>)),
                    Member(<< "w", "a", "i", "t", "T", "i", "l",
                            "l" >>, Get(execution, << "w", "a", "i", "t", "T", "i",
                            "l", "l" >>)) >>
                 \o IF Truthy(data) /\ data.k \in {"obj", "arr"}
                    THEN << Member(<< "d", "a", "t", "a", "S", "u", "m", "m", "a",
                            "r", "y" >>,
                                   Str(Cat(NumText(hasResults),
                                           Lit(<< " ", "n", "o", "d", "e", "s", " ",
                                                   "e", "x", "e", "c", "u", "t",
                                                   "e", "d" >>)))) >>
                    ELSE <<>>)

\* { ...obj, data: value }
WithData(obj, value) ==
    Obj([i \in 1..Len(obj.m) |->
            IF obj.m[i].key = Lit(<< "d", "a", "t", "a" >>) THEN Member(<< "d", "a",
                    "t", "a" >>, value) ELSE obj.m[i]])

\* truncateResponse(obj): the string returned and the tier that returned it.
truncateResponse(obj) ==
    LET jsonString == Stringify(obj, 0)
        data == Get(obj, << "d", "a", "t", "a" >>)
        truncatedObj ==
            WithData(obj, Arr([i \in 1..Len(data.m) |-> truncateExecutionItem(data.m[i])]))
        truncatedString == Stringify(truncatedObj, 0)
        maxLength == MAX_RESPONSE_TOKENS * 4
    IN  IF Fits(jsonString)
        THEN [out |-> jsonString, tier |-> "pass-through"]
        ELSE IF Truthy(data) /\ data.k = "arr" /\ Fits(truncatedString)
        THEN [out |-> Cat(truncatedString, TRUNCATION_MESSAGE), tier |-> "projection"]
        ELSE [out |-> Cat(Take(jsonString, maxLength), TRUNCATION_MESSAGE),
              tier |-> "truncation"]

\* The projection createSummaryResponse makes of one record.
SummaryOf(exec) ==
    Obj(<< Member(<< "i", "d" >>, Get(exec, << "i", "d" >>)),
           Member(<< "s", "t", "a", "t", "u", "s" >>, Get(exec, << "s", "t", "a",
                   "t", "u", "s" >>)),
           Member(<< "s", "t", "a", "r", "t", "e", "d", "A",
                   "t" >>, Get(exec, << "s", "t", "a", "r", "t", "e", "d", "A", "t" >>)),
           Member(<< "s", "t", "o", "p", "p", "e", "d", "A",
                   "t" >>, Get(exec, << "s", "t", "o", "p", "p", "e", "d", "A", "t" >>)),
           Member(<< "w", "o", "r", "k", "f", "l", "o", "w", "I",
                   "d" >>, Get(exec, << "w", "o", "r", "k", "f", "l", "o", "w", "I",
                   "d" >>)),
           Member(<< "m", "o", "d", "e" >>, Get(exec, << "m", "o", "d", "e" >>)),
           Member(<< "d", "a", "t", "a", "S", "i", "z", "e" >>,
                  Str(IF Truthy(Get(exec, << "d", "a", "t", "a" >>))
                      THEN Lit(<< "p", "r", "e", "s", "e", "n",
                              "t" >>) ELSE Lit(<< "n", "o", "n", "e" >>))) >>)

createSummaryResponse_shrunk(executions) ==
    [out |-> truncateResponse(executions).out, threw |-> FALSE]

\* createSummaryResponse(executions): the string returned, or threw when
\* data is no array or holds null or undefined (exec.id is a TypeError).
createSummaryResponse(executions) ==
    LET data == Get(executions, << "d", "a", "t", "a" >>) IN
    IF ~ Truthy(executions) \/ ~ Truthy(data)
    THEN [out |-> Stringify(executions, 0), threw |-> FALSE]
    ELSE IF data.k # "arr" \/ \E i \in 1..Len(data.m) : data.m[i].k \in {"null",
            "undefined"}
    THEN [out |-> <<>>, threw |-> TRUE]
    ELSE [out |-> Stringify(
                    Obj(<< Member(<< "t", "o", "t", "a", "l", "E", "x", "e", "c",
                            "u", "t", "i", "o", "n", "s" >>, Num(Len(data.m))),
                           Member(<< "s", "u", "m", "m", "a", "r", "y" >>,
                                  Arr([i \in 1..Len(data.m) |-> SummaryOf(data.m[i])])),
                           Member(<< "n", "e", "x", "t", "C", "u", "r", "s", "o",
                                   "r" >>, Get(executions, << "n", "e", "x", "t",
                                   "C", "u", "r", "s", "o", "r" >>)) >>), 0),
          threw |-> FALSE]

\* ---- the budgeter on its own: one value, shrunk, shrunk again, summarized
MaxSlack == 2
MaxItems == 2

\* The longest text that fits the budget, and the length hard truncation
\* cuts to.
FitLength == (7 * MAX_RESPONSE_TOKENS) \div 2
CutLength == MAX_RESPONSE_TOKENS * 4

\* The lengths the values are sized to: least, around the two lengths above,
\* and far beyond.
Targets ==
    {0, 2 * CutLength}
        \cup {FitLength + d : d \in (0 - MaxSlack)..MaxSlack}
        \cup {CutLength + d : d \in (0 - MaxSlack)..MaxSlack}

Xs(n) == Rep("x", n)

\* An execution record with result data, one without, and no record.
Execution(id, blob) ==
    Obj(<< Member(<< "i", "d" >>, Str(id)),
           Member(<< "m", "o", "d", "e" >>, Str(Lit(<< "m", "a", "n", "u", "a", "l" >>))),
           Member(<< "s", "t", "a", "t", "u", "s" >>, Str(Lit(<< "s", "u", "c", "c",
                   "e", "s", "s" >>))),
           Member(<< "s", "t", "a", "r", "t", "e", "d", "A", "t" >>, Str(Lit(<< "2",
                   "0", "2", "4", "-", "0", "1", "-", "0", "1", "T", "0", "0", ":",
                   "0", "0", ":", "0", "0", ".", "0", "0", "0", "Z" >>))),
           Member(<< "s", "t", "o", "p", "p", "e", "d", "A", "t" >>, Str(Lit(<< "2",
                   "0", "2", "4", "-", "0", "1", "-", "0", "1", "T", "0", "0", ":",
                   "0", "0", ":", "0", "1", ".", "0", "0", "0", "Z" >>))),
           Member(<< "w", "o", "r", "k", "f", "l", "o", "w", "I",
                   "d" >>, Str(Lit(<< "1", "2" >>))),
           Member(<< "d", "a", "t", "a" >>,
                  Obj(<< Member(<< "r", "e", "s", "u", "l", "t", "D", "a", "t", "a" >>,
                            Obj(<< Member(<< "r", "u", "n", "D", "a", "t", "a" >>,
                                      Obj(<< Member(<< "S", "t", "a", "r",
                                              "t" >>, Arr(<< Str(blob) >>)),
                                             Member(<< "S", "e",
                                                     "t" >>, Arr(<<>>)) >>)) >>)) >>)) >>)

Waiting(id) ==
    Obj(<< Member(<< "i", "d" >>, Str(id)),
           Member(<< "s", "t", "a", "t", "u", "s" >>, Str(Lit(<< "w", "a", "i", "t",
                   "i", "n", "g" >>))),
           Member(<< "w", "a", "i", "t", "T", "i", "l", "l" >>, Str(Lit(<< "2", "0",
                   "2", "4", "-", "0", "1", "-", "0", "2" >>))) >>)

Others(i) ==
    CASE i = 1 -> Waiting(Lit(<< "2" >>))
      [] i = 2 -> Execution(Lit(<< "3" >>), Lit(<< "a", " ", "\"", "b", "\"", "\n" >>))
      [] OTHER -> Null

\* The records after the first one of a list.
Rests == SeqsUpTo(1..3, MaxItems - 1)

Shapes == {"string", "marked string", "message", "array", "executions", "long ids"}

\* The value of a shape with filler of n characters and the further records
\* rest.
Shaped(shape, n, rest) ==
    LET more == [i \in 1..Len(rest) |-> Others(rest[i])] IN
    CASE shape = "string" -> Str(Xs(n))
      [] shape = "marked string" -> Str(Cat(Xs(n), TRUNCATION_MESSAGE))
      [] shape = "message" -> Obj(<< Member(<< "m", "e", "s", "s", "a", "g",
              "e" >>, Str(Xs(n))) >>)
      [] shape = "array" -> Arr(<< Str(Xs(n)), Null >>)
      [] shape = "executions" ->
            Obj(<< Member(<< "d", "a", "t",
                    "a" >>, Arr(<< Execution(Lit(<< "1" >>), Xs(n)) >> \o more)),
                   Member(<< "n", "e", "x", "t", "C", "u", "r", "s", "o",
                           "r" >>, Str(Lit(<< "c", "1" >>))) >>)
      [] shape = "long ids" ->
            Obj(<< Member(<< "d", "a", "t",
                    "a" >>, Arr(more \o << Execution(Xs(n), Lit(<< "o", "k" >>)) >>)) >>)

\* The text whose length is sized: the serialization, and for long ids the
\* serialization of the projected value.
Sized(shape, v) ==
    IF shape = "long ids"
    THEN Stringify(WithData(v, Arr([i \in 1..Len(Get(v, << "d", "a", "t", "a" >>).m) |->
                                      truncateExecutionItem(Get(v, << "d", "a", "t",
                                              "a" >>).m[i])])), 0)
    ELSE Stringify(v, 0)

\* The value of the shape whose sized text has length target, or the least
\* one.
Value(shape, target, rest) ==
    LET least == TextLen(Sized(shape, Shaped(shape, 0, rest)))
    IN  Shaped(shape, IF target > least THEN target - least ELSE 0, rest)

NoText == <<>>

InitBudgeter ==
    /\ Constructed
    /\ task = NoTask
    /\ matcher = NoMatch
    /\ \E shape \in Shapes, target \in Targets, rest \in Rests :
          budgeter = [value |-> Value(shape, target, rest), out |-> NoText,
                      tier |-> "none", again |-> NoText, summary |-> NoText,
                      threw |-> FALSE]

\* truncateResponse(value)
Shrink ==
    /\ budgeter.out = NoText
    /\ LET r == truncateResponse(budgeter.value) IN
       budgeter' = [budgeter EXCEPT !.out = << r.out >>, !.tier = r.tier]
    /\ UNCHANGED << vars, task, matcher >>

\* truncateResponse(truncateResponse(value))
ShrinkAgain ==
    /\ budgeter.out # NoText
    /\ budgeter.again = NoText
    /\ budgeter' = [budgeter EXCEPT
                      !.again = << truncateResponse(Str(budgeter.out[1])).out >>]
    /\ UNCHANGED << vars, task, matcher >>

\* createSummaryResponse(value)
Summarize ==
    /\ budgeter.summary = NoText
    /\ ~ budgeter.threw
    /\ LET r == createSummaryResponse(budgeter.value) IN
       budgeter' = [budgeter EXCEPT
                      !.summary = IF r.threw THEN NoText ELSE << r.out >>,
                      !.threw = r.threw]
    /\ UNCHANGED << vars, task, matcher >>

NextBudgeter ==
    \/ Shrink
    \/ ShrinkAgain
    \/ Summarize

SpecBudgeter == InitBudgeter /\ [][NextBudgeter]_allvars

Shrunk == budgeter.out # NoText

WithinBudget(text) == (2 * TextLen(text) + 6) \div 7 <= MAX_RESPONSE_TOKENS

Marked(text) == EndsWith(text, TRUNCATION_MESSAGE)

\* C17 as written: the output is within the budget or ends with the marker,
\* never both.
C17_BudgetXorMarker ==
    Shrunk => ~ (WithinBudget(budgeter.out[1]) <=> Marked(budgeter.out[1]))

\* C17: the output of truncateResponse is within the budget or ends with the
\* marker. An output without the marker is the full serialization and is
\* within the budget; a hard-truncated output carries the marker and is
\* over the budget; a projected output carries the marker whether or not it
\* is within the budget with it.
C17_BudgetOrMarker ==
    Shrunk =>
        LET out == budgeter.out[1] IN
        /\ WithinBudget(out) \/ Marked(out)
        /\ Marked(out) <=> budgeter.tier # "pass-through"
        /\ ~ Marked(out) => out = Stringify(budgeter.value, 0)
        /\ budgeter.tier = "truncation" => ~ WithinBudget(out)
        /\ WithinBudget(out) /\ Marked(out) => budgeter.tier = "projection"

\* A projected output that ends with the marker and is within the budget.
C17_Witness ==
    /\ Shrunk
    /\ WithinBudget(budgeter.out[1])
    /\ Marked(budgeter.out[1])

ShrunkAgain == budgeter.again # NoText

\* C18 as written: for a value whose serialization is within the budget,
\* truncateResponse of the output is the output.
C18_Idempotent ==
    ShrunkAgain /\ WithinBudget(Stringify(budgeter.value, 0)) =>
        budgeter.again[1] = budgeter.out[1]

\* C18: for a value whose serialization is within the budget, the output is
\* that serialization, and truncateResponse of the output is never the
\* output: it is the output as a JSON string literal (quoted, with quotes,
\* backslashes and newlines escaped) when that fits the budget, and the
\* first CutLength characters of the literal and the marker when it does
\* not.
C18_ReapplyQuotes ==
    ShrunkAgain /\ WithinBudget(Stringify(budgeter.value, 0)) =>
        LET out == budgeter.out[1]
            again == budgeter.again[1]
            literal == Join(<< Lit(<< "\"" >>), Escape(out), Lit(<< "\"" >>) >>)
        IN  /\ out = Stringify(budgeter.value, 0)
            /\ again # out
            /\ Take(again, 1) = Lit(<< "\"" >>)
            /\ TextLen(literal) >= TextLen(out) + 2
            /\ WithinBudget(literal) => again = literal
            /\ ~ WithinBudget(literal) =>
                  again = Cat(Take(literal, CutLength), TRUNCATION_MESSAGE)

\* The output of a value within the budget, shrunk again, came back as a
\* longer literal with escapes; and one came back cut and marked.
C18_Witness ==
    /\ ShrunkAgain
    /\ WithinBudget(Stringify(budgeter.value, 0))
    /\ TextLen(budgeter.again[1]) > TextLen(budgeter.out[1]) + 2
    /\ ~ Marked(budgeter.again[1])

Summarized == budgeter.summary # NoText

\* The value has a record list: data is an array of objects.
HasRecordList(v) ==
    /\ v.k = "obj"
    /\ Get(v, << "d", "a", "t", "a" >>).k = "arr"
    /\ \A i \in 1..Len(Get(v, << "d", "a", "t", "a" >>).m) : Get(v, << "d", "a",
            "t", "a" >>).m[i].k = "obj"

\* The summary the claim describes: the number of records, one minimal
\* projection per record in input order, and the cursor.
ClaimedSummary(v) ==
    LET records == Get(v, << "d", "a", "t", "a" >>).m IN
    Obj(<< Member(<< "t", "o", "t", "a", "l", "E", "x", "e", "c", "u", "t", "i",
            "o", "n", "s" >>, Num(Len(records))),
           Member(<< "s", "u", "m", "m", "a", "r", "y" >>,
                  Arr([i \in 1..Len(records) |->
                        Obj(<< Member(<< "i", "d" >>, Get(records[i], << "i", "d" >>)),
                               Member(<< "s", "t", "a", "t", "u",
                                       "s" >>, Get(records[i], << "s", "t", "a",
                                       "t", "u", "s" >>)),
                               Member(<< "s", "t", "a", "r", "t", "e", "d", "A",
                                       "t" >>, Get(records[i], << "s", "t", "a",
                                       "r", "t", "e", "d", "A", "t" >>)),
                               Member(<< "s", "t", "o", "p", "p", "e", "d", "A",
                                       "t" >>, Get(records[i], << "s", "t", "o",
                                       "p", "p", "e", "d", "A", "t" >>)),
                               Member(<< "w", "o", "r", "k", "f", "l", "o", "w",
                                       "I", "d" >>, Get(records[i], << "w", "o",
                                       "r", "k", "f", "l", "o", "w", "I", "d" >>)),
                               Member(<< "m", "o", "d",
                                       "e" >>, Get(records[i], << "m", "o", "d", "e" >>)),
                               Member(<< "d", "a", "t", "a", "S", "i", "z", "e" >>,
                                      Str(IF Get(records[i], << "d", "a", "t",
                                              "a" >>).k = "obj"
                                          THEN Lit(<< "p", "r", "e", "s", "e", "n",
                                                  "t" >>)
                                          ELSE Lit(<< "n", "o", "n", "e" >>))) >>)])),
           Member(<< "n", "e", "x", "t", "C", "u", "r", "s", "o",
                   "r" >>, Get(v, << "n", "e", "x", "t", "C", "u", "r", "s", "o",
                   "r" >>)) >>)

\* C19: for a value with a record list createSummaryResponse returns the
\* whole serialization of the summary, whatever its length, and no marker.
C19_SummaryIsWhole ==
    HasRecordList(budgeter.value) /\ (Summarized \/ budgeter.threw) =>
        /\ ~ budgeter.threw
        /\ budgeter.summary[1] = Stringify(ClaimedSummary(budgeter.value), 0)
        /\ ~ Marked(budgeter.summary[1])

\* A summary of two records or more that is longer than any output of
\* truncateResponse.
C19_Witness ==
    /\ Summarized
    /\ HasRecordList(budgeter.value)
    /\ Len(Get(budgeter.value, << "d", "a", "t", "a" >>).m) >= 2
    /\ TextLen(budgeter.summary[1]) > CutLength + TextLen(TRUNCATION_MESSAGE)

\* ------------------------------------------- find_similar_node_type: claims
\* The similarity of the queried type to each key, in insertion order.
Scores ==
    SelectSeq([i \in 1..Len(matcher.registry) |->
                  calculate_similarity(matcher.node_type, matcher.registry[i])],
              LAMBDA score : TRUE)

\* No score is greater than the score at index i.
AmongTheMostSimilar(scores, i) ==
    \A j \in 1..Len(scores) : ~ Greater(scores[j], scores[i])

\* Index i is the first in insertion order among the most similar.
FirstOfTheMostSimilar(scores, i) ==
    /\ AmongTheMostSimilar(scores, i)
    /\ \A j \in 1..(i - 1) : ~ AmongTheMostSimilar(scores, j)

\* The suggestion is the key at the first index of greatest similarity when
\* that similarity is above 0.6, and no suggestion otherwise.
SuggestsFirstOfTheMostSimilar(registry, scores, suggestion) ==
    IF \E i \in 1..Len(scores) : FirstOfTheMostSimilar(scores, i) /\ Over06(scores[i])
    THEN \E i \in 1..Len(scores) :
            FirstOfTheMostSimilar(scores, i) /\ suggestion = registry[i]
    ELSE suggestion = NoSuggestion

\* Two keys tie for the greatest similarity, which is above 0.6, and the
\* earlier one is given.
TiedAndGiven(registry, scores, suggestion) ==
    \E i \in 1..Len(scores), j \in 1..Len(scores) :
        /\ i < j
        /\ FirstOfTheMostSimilar(scores, i)
        /\ AmongTheMostSimilar(scores, j)
        /\ Over06(scores[i])
        /\ suggestion = registry[i]

\* C24: for a type that is no key, the suggestion is the first key in
\* insertion order among the keys of greatest similarity when that
\* similarity is strictly above 0.6, and no suggestion when no key scores
\* strictly above 0.6 or the registry is empty.
C24_FirstOfTheMostSimilar ==
    Answered /\ ~ matcher.answer[1].valid =>
        SuggestsFirstOfTheMostSimilar(matcher.registry, Scores,
                                      matcher.answer[1].suggestion)

\* Two keys tie for the greatest similarity, which is above 0.6, and the
\* earlier one is the suggestion.
C24_Witness ==
    /\ Answered
    /\ ~ matcher.answer[1].valid
    /\ TiedAndGiven(matcher.registry, Scores, matcher.answer[1].suggestion)

\* The keys that differ from the queried type in letter case only.
CaseVariants ==
    { k \in Range(matcher.registry) :
        k # matcher.node_type /\ toLowerCase(k) = toLowerCase(matcher.node_type) }

\* C30: a type that is no key but differs from a key in letter case only
\* is answered valid = false with a suggestion that is such a key: the
\* suggestion in lower case is the type in lower case, similarity 1.
C30_CaseOnlyDifference ==
    Answered /\ matcher.node_type \notin Range(matcher.registry)
             /\ CaseVariants # {} =>
        LET a == matcher.answer[1] IN
        /\ ~ a.valid
        /\ a.suggestion \in CaseVariants
        /\ LET score == calculate_similarity(matcher.node_type, a.suggestion)
           IN  score.d > 0 /\ score.n = score.d

\* A type in another letter case than a key was answered, in a registry
\* that holds another key as well.
C30_Witness ==
    /\ Answered
    /\ matcher.node_type \notin Range(matcher.registry)
    /\ matcher.answer[1].suggestion \in CaseVariants
    /\ Range(matcher.registry) \ CaseVariants # {}

\* ------------------------- levenshtein_distance, calculate_similarity alone
MaxWordLen == 3

Words == SeqsUpTo(Alphabet, MaxWordLen)

InitDistance ==
    /\ Constructed
    /\ task = NoTask
    /\ budgeter = NoBudget
    /\ \E a \in Words, b \in Words :
          matcher = [NoMatch EXCEPT !.node_type = a, !.registry = << b >>]

\* levenshtein_distance(a, b)
Distance ==
    /\ matcher.distance = <<>>
    /\ matcher' = [matcher EXCEPT !.distance =
                      << levenshtein_distance(matcher.node_type, matcher.registry[1]) >>]
    /\ UNCHANGED << vars, task, budgeter >>

\* calculate_similarity(a, b)
Score ==
    /\ matcher.score = <<>>
    /\ matcher' = [matcher EXCEPT !.score =
                      << calculate_similarity(matcher.node_type, matcher.registry[1]) >>]
    /\ UNCHANGED << vars, task, budgeter >>

NextDistance ==
    \/ Distance
    \/ Score

SpecDistance == InitDistance /\ [][NextDistance]_allvars

\* The strings one insertion, one deletion or one substitution away from s.
OneEdit(s) ==
    { SubSeq(s, 1, i - 1) \o SubSeq(s, i + 1, Len(s)) : i \in 1..Len(s) }
        \cup { SubSeq(s, 1, i) \o << ch >> \o SubSeq(s, i + 1, Len(s)) :
                    i \in 0..Len(s), ch \in Alphabet }
        \cup ({ [s EXCEPT ![i] = ch] : i \in 1..Len(s), ch \in Alphabet } \ {s})

Longer(a, b) == IF Len(a) >= Len(b) THEN Len(a) ELSE Len(b)

\* C25: levenshtein_distance(a, b) is the least number of single-character
\* insertions, deletions and substitutions that turn a into b: it is 0
\* exactly for a = b, symmetric, no edit of a shortens the way to b by more
\* than one, and for a # b some edit of a shortens it by one (these three
\* determine the distance in the graph of single edits). And
\* calculate_similarity(a, b) is 1 - levenshtein_distance(lower(a),
\* lower(b)) / max(len(a), len(b)).
C25_DistanceIsEditCount ==
    LET a == matcher.node_type
        b == matcher.registry[1]
    IN  /\ matcher.distance # <<>> =>
              LET d == matcher.distance[1] IN
              /\ d = 0 <=> a = b
              /\ d = levenshtein_distance(b, a)
              /\ \A c \in OneEdit(a) : d <= levenshtein_distance(c, b) + 1
              /\ a # b =>
                    \E c \in OneEdit(a) :
                        /\ Len(c) <= Longer(a, b)
                        /\ levenshtein_distance(c, b) = d - 1
        /\ matcher.score # <<>> =>
              /\ matcher.score[1].d = Longer(a, b)
              /\ matcher.score[1].n =
                    Longer(a, b) - levenshtein_distance(toLowerCase(a), toLowerCase(b))
              /\ matcher.score[1] =
                    calculate_similarity(toLowerCase(b), toLowerCase(a))

\* Two strings of different lengths, two edits or more apart, that are
\* closer in lower case than as they are.
C25_Witness ==
    /\ matcher.distance # <<>>
    /\ matcher.score # <<>>
    /\ Len(matcher.node_type) # Len(matcher.registry[1])
    /\ matcher.distance[1] >= 2
    /\ matcher.score[1].d - matcher.score[1].n < matcher.distance[1]
    /\ matcher.score[1].n > 0

\* --------------------------------------------- truncateResponse: the tiers
\* What an output keeps of a serialization: all but the marker at its end.
Kept(text) == Take(text, TextLen(text) - TextLen(TRUNCATION_MESSAGE))

\* C22: a hard-truncated output is the first budget x K characters of the
\* serialization and the marker, K being what the estimator divides by
\* (3.5): the kept prefix is within the budget and the whole output is over
\* it by the marker's estimate at most.
C22_CutFitsTheBudget ==
    Shrunk /\ budgeter.tier = "truncation" =>
        LET out == budgeter.out[1] IN
        /\ Marked(out)
        /\ Kept(out) = Take(Stringify(budgeter.value, 0), FitLength)
        /\ estimateTokenCount(Kept(out)) <= MAX_RESPONSE_TOKENS
        /\ estimateTokenCount(out)
              <= MAX_RESPONSE_TOKENS + estimateTokenCount(TRUNCATION_MESSAGE)

\* The value is an object with an array field `data`.
HasDataArray(v) == v.k = "obj" /\ Get(v, << "d", "a", "t", "a" >>).k = "arr"

\* The serialization of the value with every item of data projected.
Projection(v) ==
    Stringify(WithData(v, Arr([i \in 1..Len(Get(v, << "d", "a", "t", "a" >>).m) |->
                                 truncateExecutionItem(Get(v, << "d", "a", "t",
                                         "a" >>).m[i])])), 0)

\* C23: the tiers in order. The output is the full serialization, with no
\* marker, exactly when that is within the budget; the projection is
\* returned (with the marker) only when the full serialization is over the
\* budget, the value is an object with an array field `data` and the
\* projection is within the budget; the hard truncation only when the full
\* serialization is over the budget and the projection does not apply or
\* is over the budget itself.
C23_TiersInOrder ==
    Shrunk =>
        LET v == budgeter.value
            out == budgeter.out[1]
            full == Stringify(v, 0)
        IN  /\ budgeter.tier \in {"pass-through", "projection", "truncation"}
            /\ out = full <=> WithinBudget(full)
            /\ budgeter.tier = "pass-through" <=> WithinBudget(full)
            /\ budgeter.tier = "pass-through" => out = full /\ ~ Marked(out)
            /\ budgeter.tier = "projection" =>
                  /\ ~ WithinBudget(full)
                  /\ HasDataArray(v)
                  /\ WithinBudget(Projection(v))
                  /\ out = Cat(Projection(v), TRUNCATION_MESSAGE)
            /\ budgeter.tier = "truncation" =>
                  /\ ~ WithinBudget(full)
                  /\ ~ HasDataArray(v) \/ ~ WithinBudget(Projection(v))
                  /\ out = Cat(Take(full, CutLength), TRUNCATION_MESSAGE)

\* A value with an array field `data` whose projection is still over the
\* budget was hard-truncated.
C23_Witness ==
    /\ Shrunk
    /\ budgeter.tier = "truncation"
    /\ HasDataArray(budgeter.value)
    /\ ~ WithinBudget(Projection(budgeter.value))

\* ------------------------------------------------ the cache: further claims
\* The refresh that set is_fetching and fetch_promise has completed and the
\* finally block of the call that started it is the next continuation to
\* run.
ResetIsNext ==
    /\ phase[fetch_promise] = "settled"
    /\ microQ # <<>>
    /\ Head(microQ) \in Callers
    /\ pc[Head(microQ)] = "finally"
    /\ awaiting[Head(microQ)] = fetch_promise

\* C26: is_fetching is true exactly when fetch_promise is set; while they
\* are set the refresh that set them is outstanding, or it has completed
\* (however it ended) and their reset is the next continuation to run; and
\* while they are not set no fetch is outstanding, so a call on a cache
\* that is not valid starts one.
C26_InFlightFlagsAgree ==
    /\ is_fetching <=> fetch_promise # NoPromise
    /\ is_fetching => fetch_promise \in Outstanding \/ ResetIsNext
    /\ ~ is_fetching => Outstanding = {}
    /\ \A c \in Callers :
          how[c] = "started" /\ pc[c] = "own" =>
              is_fetching /\ fetch_promise = awaiting[c]

\* A second refresh is in flight after the first has failed and its flags
\* were reset.
C26_Witness ==
    /\ is_fetching
    /\ fetch_promise = 2
    /\ phase[1] = "settled"
    /\ phase[2] = "awaitFetch"
    /\ node_registry = fallback_nodes

\* C27: a call made while the registry is empty and no refresh is in
\* flight starts a remote fetch, whatever last_fetch_time is.
C27_EmptyIsNeverFresh ==
    [][\A c \in Callers :
          ( /\ pc[c] = "idle" /\ pc'[c] # "idle"
            /\ Len(node_registry) = 0
            /\ ~ is_fetching )
          => ( /\ pc'[c] = "own"
               /\ fetchCount' = fetchCount + 1
               /\ is_fetching'
               /\ fetch_promise' = fetchCount'
               /\ phase'[fetch_promise'] = "awaitFetch" )]_allvars

\* A fetch was started on an empty registry in the very freshness window
\* that the successful fetch before it had opened.
C27_Witness ==
    /\ attempt.id = 2
    /\ attempt.outcome = "pending"
    /\ attempt.pre = <<>>
    /\ attempt.started = last_fetch_time
    /\ last_fetch_time > 0

\* C28: once a failed refresh has applied the fallback set, the registry
\* is the fallback set, stamped at or after the start of that refresh,
\* until the next fetch; that fetch starts no sooner than CACHE_DURATION
\* after the stamp; and every validation answered meanwhile is valid
\* exactly for the fallback names.
C28_FallbackServedAsFresh ==
    [][attempt.fallback =>
          /\ node_registry = fallback_nodes
          /\ last_fetch_time >= attempt.started
          /\ fetchCount' # fetchCount => now - last_fetch_time >= CACHE_DURATION
          /\ Len(task'.verdicts) > Len(task.verdicts) =>
                task'.verdicts[Len(task'.verdicts)]
                    = (task.nodes[task.idx] \in Range(fallback_nodes))]_allvars

\* Half a freshness window after the fallback set was applied, a batch
\* with a node the remote would serve has been answered without any fetch.
C28_Witness ==
    /\ attempt.fallback
    /\ now - last_fetch_time = TickStep
    /\ task.op = "batch"
    /\ task.pcv = "done"
    /\ task.fetches = 0
    /\ \E i \in 1..Len(task.verdicts) : ~ task.verdicts[i]
    /\ \E i \in 1..Len(task.verdicts) : task.verdicts[i]

\* ------------------------------------------ every call eventually returns
\* Every remote fetch eventually completes, one way or another.
EveryFetchCompletes ==
    \A id \in FetchIds : (id \in Outstanding) ~> (phase[id] = "settled")

\* The runtime runs the continuation at the head of the queue.
Continues ==
    \/ \E c \in Callers : Finally(c) \/ Adopt(c) \/ Return(c)
    \/ BatchContinues
    \/ NodeCall
    \/ Pop
    \/ NodeChecked

\* Another caller calls ensure_node_registry_is_loaded while a frame is
\* left for the call under study.
OtherCall(c) ==
    /\ \E d \in Frames : d # c /\ pc[d] = "idle"
    /\ ensure_node_registry_is_loaded(c)

\* The validator at one point of time.
NextLive ==
    \/ \E c \in Frames : OtherCall(c)
    \/ \E id \in FetchIds : FetchRejects(id)
    \/ \E id \in FetchIds : FetchOk(id)
    \/ \E id \in FetchIds, data \in BatchPayloads : JsonResolves(id, data)
    \/ \E c \in Callers : Finally(c)
    \/ \E c \in Callers : Adopt(c)
    \/ \E c \in Callers : Return(c)
    \/ \E node_type \in BatchTypes : validate_node_type(node_type)
    \/ \E nodes \in Batches : validate_workflow_nodes(nodes)
    \/ BatchContinues
    \/ NodeCall
    \/ Pop
    \/ NodeChecked

\* The validator with a remote that completes every fetch and a runtime
\* that runs every queued continuation.
SpecLive ==
    /\ Init
    /\ [][NextLive]_allvars
    /\ EveryFetchCompletes
    /\ WF_allvars(Continues)

\* The call under study stands before an ensure call that has to start a
\* fetch beyond MaxFetches: where the model ends, not the program.
FetchBudgetSpent ==
    /\ task.pcv = "call"
    /\ fetchCount = MaxFetches
    /\ ~ AlreadyFetching(is_fetching, fetch_promise)
    /\ ~ CacheValid(node_registry, last_fetch_time, now)

\* C21: a call that started or joined a refresh leaves its await only in
\* the step in which that fetch completes, and a call made while a fetch
\* is outstanding joins it: without completion they wait forever. With a
\* remote that completes every fetch, every ensure_node_registry_is_loaded
\* call and every validate_node_type and validate_workflow_nodes call
\* eventually returns.
C21_ReturnsWhenFetchCompletes ==
    /\ [][\A c \in Callers :
             pc[c] \in {"own", "joined"} /\ pc'[c] # pc[c] =>
                 /\ awaiting[c] \in Outstanding
                 /\ phase'[awaiting[c]] = "settled"]_allvars
    /\ [][\A c \in Callers :
             pc[c] = "idle" /\ pc'[c] # "idle" /\ Outstanding # {} =>
                 /\ pc'[c] = "joined"
                 /\ awaiting'[c] \in Outstanding]_allvars
    /\ \A c \in Callers :
          (pc[c] # "idle") ~> (pc[c] = "idle" \/ FetchBudgetSpent)
    /\ (task.op # "none") ~> (task.pcv = "done" \/ FetchBudgetSpent)

\* A batch of two nodes has returned after its own calls started two
\* fetches.
C21_Witness ==
    /\ task.op = "batch"
    /\ task.pcv = "done"
    /\ Len(task.verdicts) = 2
    /\ task.fetches = 2
    /\ \A c \in Callers : pc[c] = "idle"

\* =================================================== createValidatedWorkflow
\* createValidatedWorkflow(workflowInput) is called: up to its first await
\* or its throw. parses is whether the input passes the schema; nodes are
\* the declared types of workflow.nodes (none when the field is absent or
\* empty); activate is the input's flag.
createValidatedWorkflow(parses, nodes, activate) ==
    /\ task.op = "none"
    /\ IF ~ parses
       THEN /\ task' = [NoTask EXCEPT !.op = "workflow", !.pcv = "done",
                                      !.wf = "schema error"]
            /\ UNCHANGED << vars, matcher, budgeter >>
       ELSE IF nodes = <<>>
       THEN /\ task' = [NoTask EXCEPT !.op = "workflow", !.pcv = "done",
                                      !.wf = "creating", !.activate = activate,
                                      !.requests = << "create" >>]
            /\ UNCHANGED << vars, matcher, budgeter >>
       ELSE \E c \in Callers :
               /\ TaskCalls(c)
               /\ task' = [NoTask EXCEPT !.op = "batch", !.pcv = "upfront",
                                         !.frame = c, !.nodes = nodes, !.idx = 1,
                                         !.fetches = fetchCount' - fetchCount,
                                         !.keysAtCall = Range(node_registry),
                                         !.fresh = (how'[c] = "fresh"),
                                         !.wf = "validating",
                                         !.activate = activate]

NodesValidated_sendsAnyway ==
    /\ task.wf = "validating"
    /\ task.pcv = "done"
    /\ task' = [task EXCEPT !.wf = "creating", !.requests = Append(@, "create")]
    /\ UNCHANGED << vars, matcher, budgeter >>

\* `await this.nodeValidator.validate_workflow_nodes(...)` continues: the
\* call throws 'Node validation failed' or sends the create request.
NodesValidated ==
    /\ task.wf = "validating"
    /\ task.pcv = "done"
    /\ task' = IF Len(task.invalid_nodes) > 0
               THEN [task EXCEPT !.wf = "node error"]
               ELSE [task EXCEPT !.wf = "creating",
                                 !.requests = Append(@, "create")]
    /\ UNCHANGED << vars, matcher, budgeter >>

\* What makeRequest gives for the create request: a workflow with an id,
\* an object without one ({} for an empty or unparsable body), or an error.
Responses == {"id", "no id", "error"}

\* `await this.makeRequest('/workflows', ...)` continues: the call throws,
\* sends the activate request, or returns.
CreateResponds(response) ==
    /\ task.wf = "creating"
    /\ microQ = <<>>
    /\ task' = IF response = "error" THEN [task EXCEPT !.wf = "request error"]
               ELSE IF task.activate /\ response = "id"
               THEN [task EXCEPT !.wf = "activating", !.id = TRUE,
                                 !.requests = Append(@, "activate")]
               ELSE [task EXCEPT !.wf = "returned", !.id = (response = "id")]
    /\ UNCHANGED << vars, matcher, budgeter >>

\* `await this.activateWorkflow(...)` continues: the call returns or throws.
ActivateResponds(response) ==
    /\ task.wf = "activating"
    /\ microQ = <<>>
    /\ task' = [task EXCEPT !.wf = IF response = "error" THEN "request error"
                                   ELSE "returned"]
    /\ UNCHANGED << vars, matcher, budgeter >>

NextWorkflow ==
    \/ \E c \in Frames : ensure_node_registry_is_loaded(c)
    \/ \E id \in FetchIds : FetchRejects(id)
    \/ \E id \in FetchIds : FetchOk(id)
    \/ \E id \in FetchIds, data \in BatchPayloads : JsonResolves(id, data)
    \/ \E c \in Callers : Finally(c)
    \/ \E c \in Callers : Adopt(c)
    \/ \E c \in Callers : Return(c)
    \/ \E parses \in BOOLEAN, nodes \in Batches, activate \in BOOLEAN :
          createValidatedWorkflow(parses, nodes, activate)
    \/ BatchContinues
    \/ NodeCall
    \/ Pop
    \/ NodeChecked
    \/ NodesValidated
    \/ \E response \in Responses : CreateResponds(response)
    \/ \E response \in Responses : ActivateResponds(response)

SpecWorkflow == Init /\ [][NextWorkflow]_allvars

\* A node of the workflow was checked while its type was no key of the
\* registry.
SomeTypeUnknown ==
    \E i \in 1..Len(task.verdicts) : task.nodes[i] \notin task.keysAtCheck[i]

\* C29: the create request is sent only after validate_workflow_nodes has
\* returned no invalid entry, every node having been checked and found in
\* the registry; when a node's type is not in the registry the call ends
\* with 'Node validation failed' and has sent no request; and the activate
\* request is sent only after the create request, when that returned an id
\* and the input asked for activation.
C29_CreateOnlyAfterValidation ==
    /\ task.requests # <<>> =>
          /\ task.requests[1] = "create"
          /\ task.invalid_nodes = <<>>
          /\ ~ SomeTypeUnknown
          /\ task.pcv = "done"
          /\ Len(task.verdicts) = Len(task.nodes)
          /\ \A i \in 1..Len(task.nodes) : task.verdicts[i]
    /\ SomeTypeUnknown =>
          /\ task.requests = <<>>
          /\ task.wf \in {"validating", "node error"}
          /\ task.pcv = "done" => task.invalid_nodes # <<>>
    /\ task.wf = "node error" => task.requests = <<>> /\ SomeTypeUnknown
    /\ task.wf = "schema error" => task.requests = <<>>
    /\ "activate" \in Range(task.requests) =>
          /\ task.requests = << "create", "activate" >>
          /\ task.activate
          /\ task.id

\* A workflow of two nodes was validated with a fetch of the catalog,
\* created and activated.
C29_Witness ==
    /\ task.wf = "returned"
    /\ Len(task.nodes) = 2
    /\ task.fetches >= 1
    /\ task.requests = << "create", "activate" >>

====
